---- MODULE Spec2Model ----
(***************************************************************************)
(* Model of the Presenter/Model pairing of mvp-geo-guide:                  *)
(*   MapPresenter  (src/src/presenters/MapPresenter.ts)                    *)
(*   MapModel      (src/unnamed/part_002, the model the presenter imports) *)
(*                                                                         *)
(* JavaScript is single threaded and run-to-completion, so one action is   *)
(* one synchronous segment: a public call up to its first await, or the    *)
(* firing of a timer together with the continuation it resumes.            *)
(*                                                                         *)
(* Coordinates are integers in units of 0.0001 degree (12.9716 -> 129716). *)
(* Names and ids, which the code builds by interpolation, are sequences of  *)
(* words, so that `${query} Central` is  query \o <<"Central">>.           *)
(* An absent optional field holds "undefined" (a string) or <<>> (a list).  *)
(* The optional random metadata of a location (heading, speed, accuracy)   *)
(* is not represented.                                                     *)
(***************************************************************************)
EXTENDS Integers, Sequences, FiniteSets, TLC

\* ------------------------------------------------------------------ bounds
\* number of recorded handler invocations
MaxOps == 2
\* number of live-tracking sessions (calls of MapModel.startLiveTracking)
MaxSessions == 2
\* number of getCurrentLocation calls issued by tracking ticks
MaxTicks == 2
\* number of recorded handler invocations when searches and navigations race
MaxRacing == 3

\* ------------------------------------------------------- values and inputs
NoAddress == "undefined"

\* null of LocationData | null
NullLocation == [lat |-> 0, lng |-> 0, address |-> "null"]

\* null of RouteData | null
NullRoute == [start |-> NullLocation, end |-> NullLocation, polyline |-> "null",
              distance |-> "null", duration |-> "null", trafficLevel |-> "null",
              steps |-> <<>>]

\* the hard-coded reference point resolved by getCurrentLocation
ReferenceLocation == [lat |-> 129716, lng |-> 775946,
                      address |-> "Bangalore, Karnataka, India"]

\* inputs of handleLocationUpdate
UpdateLocations == {[lat |-> 130000, lng |-> 776000, address |-> NoAddress]}

\* inputs of handleGetDirections / startNavigation
Destinations == {[lat |-> 129816, lng |-> 776046, address |-> NoAddress]}

\* inputs of handleSearch
Queries == {<<"coffee">>}

LandmarkCategory == {"gas_station", "atm", "restaurant", "hotel", "hospital",
                     "pharmacy", "shopping", "tourist_attraction", "parking"}

\* inputs of handleLandmarkSearch: one category with a pool, one without
Categories == {"atm", "parking"}

\* outcomes <<dlat, dlng>> of the two draws (Math.random() - 0.5) * 0.001 of a tick
Jitter == {<<-5, 4>>, <<4, -5>>}

\* the view objects that can be attached
Views == {1, 2}

\* null of MapViewInterface | null
NoView == 0

VARIABLES
  view,                \* MapPresenter.view (NoView = null)
  currentLocation,     \* MapPresenter.currentLocation
  isNavigating,        \* MapPresenter.isNavigating
  currentRoute,        \* MapPresenter.currentRoute
  liveTrackingActive,  \* MapModel.liveTrackingActive
  trackingCallback,    \* MapModel.trackingCallback: session whose closure is stored, 0 = null
  timers,              \* sessions whose updateLocation has a setTimeout pending
  tickFetches,         \* sessions whose tick has a getCurrentLocation in flight
  nextSession,         \* id given to the next startLiveTracking call
  ticksIssued,         \* getCurrentLocation calls issued by ticks so far
  stoppedUpTo,         \* highest session started before the last stopLiveTracking
  ops,                 \* handler invocations: kind, position, arguments, pending Model
                       \* call, and the view calls the invocation made, in order
  loadingLog,          \* the showLoading calls of all invocations, in order
  delivered,           \* number of tracking-callback invocations so far
  lastDelivery,        \* the most recent tracking-callback invocation
  resolved,            \* the value resolved by the most recent direct call of
                       \* searchPlaces / getLandmarksByCategory, with its arguments
  status               \* the value returned by the most recent getNavigationStatus call

vars == <<view, currentLocation, isNavigating, currentRoute, liveTrackingActive,
          trackingCallback, timers, tickFetches, nextSession, ticksIssued,
          stoppedUpTo, ops, loadingLog, delivered, lastDelivery, resolved, status>>

presenterState == <<view, currentLocation, isNavigating, currentRoute>>
modelState == <<liveTrackingActive, trackingCallback, timers, tickFetches,
                nextSession, ticksIssued, stoppedUpTo, resolved>>
trackingLog == <<delivered, lastDelivery, status>>

\* ------------------------------------------------------------- MapModel
\* getCurrentLocation resolves the hard-coded reference point
GetCurrentLocationResult == ReferenceLocation

\* the three strings getTrafficData chooses from
TrafficLevels == {"Light traffic", "Moderate traffic", "Heavy traffic"}

\* Math.random() > 0.5 ? 'moderate' : 'light'
RouteTrafficLevels == {"moderate", "light"}

\* the values the type RouteData.trafficLevel admits
TrafficLevelEnum == {"light", "moderate", "heavy"}

RouteSteps ==
  << [instruction |-> "Head northeast on MG Road", distance |-> "1.2 km",
      duration |-> "3 min", maneuver |-> "straight"],
     [instruction |-> "Turn right onto Brigade Road", distance |-> "2.8 km",
      duration |-> "7 min", maneuver |-> "turn-right"],
     [instruction |-> "Continue straight to destination", distance |-> "8.5 km",
      duration |-> "15 min", maneuver |-> "straight"] >>

\* the RouteData getRoute(start, end) resolves, for one outcome of Math.random()
GetRoute(start, end, level) ==
  [start |-> start, end |-> end, polyline |-> "mock_polyline_data",
   distance |-> "12.5 km", duration |-> "25 min", trafficLevel |-> level,
   steps |-> RouteSteps]

\* 0.01 degree, the offset of a search result from the origin
SearchOffset == 100

\* mutant: the results sit on the origin
SearchPlacesNoOffset(query, location) ==
  << [id |-> <<"1">>, name |-> query \o <<"Central">>, location |-> location],
     [id |-> <<"2">>, name |-> <<"Best">> \o query \o <<"Place">>, location |-> location],
     [id |-> <<"3">>, name |-> query \o <<"Express">>, location |-> location] >>

\* the PlaceData list searchPlaces(query, location) resolves
\* (rating in tenths, price as the number of rupee signs, 0 = field absent)
SearchPlaces(query, location) ==
  << [id |-> <<"1">>, name |-> query \o <<"Central">>, category |-> "restaurant",
      location |-> [lat |-> location.lat + SearchOffset, lng |-> location.lng + SearchOffset,
                    address |-> NoAddress],
      rating |-> 45, isOpen |-> TRUE, price |-> 2, phone |-> "+91 80 1234 5678",
      hours |-> "9:00 AM - 10:00 PM", amenities |-> <<>>],
     [id |-> <<"2">>, name |-> <<"Best">> \o query \o <<"Place">>, category |-> "restaurant",
      location |-> [lat |-> location.lat - SearchOffset, lng |-> location.lng + SearchOffset,
                    address |-> NoAddress],
      rating |-> 42, isOpen |-> FALSE, price |-> 3, phone |-> "undefined",
      hours |-> "Closed - Opens at 11:00 AM", amenities |-> <<>>],
     [id |-> <<"3">>, name |-> query \o <<"Express">>, category |-> "restaurant",
      location |-> [lat |-> location.lat + SearchOffset, lng |-> location.lng - SearchOffset,
                    address |-> NoAddress],
      rating |-> 48, isOpen |-> TRUE, price |-> 1, phone |-> "+91 80 9876 5432",
      hours |-> "24 hours", amenities |-> <<>>] >>

\* categoryData: the categories that have a name pool of their own
PoolCategories == {"gas_station", "atm", "restaurant", "hotel", "hospital"}

CategoryNames(c) ==
  CASE c = "gas_station" ->
        <<<<"Shell">>, <<"HP", "Petrol", "Pump">>, <<"BPCL">>, <<"IOCL">>, <<"Reliance", "Petrol">>>>
    [] c = "atm" ->
        <<<<"SBI", "ATM">>, <<"HDFC", "Bank", "ATM">>, <<"ICICI", "ATM">>, <<"Axis", "Bank", "ATM">>, <<"Kotak", "ATM">>>>
    [] c = "restaurant" ->
        <<<<"Coastal", "Kitchen">>, <<"Spice", "Garden">>, <<"Urban", "Bites">>, <<"Food", "Court">>, <<"Cafe", "Mocha">>>>
    [] c = "hotel" ->
        <<<<"Grand", "Palace">>, <<"City", "Inn">>, <<"Budget", "Stay">>, <<"Luxury", "Suites">>, <<"Comfort", "Lodge">>>>
    [] c = "hospital" ->
        <<<<"City", "Hospital">>, <<"Care", "Medical">>, <<"Health", "Plus">>, <<"Emergency", "Center">>, <<"Clinic">>>>

CategoryAmenities(c) ==
  CASE c = "gas_station" -> <<"Fuel", "ATM", "Car Wash", "Air Fill">>
    [] c = "atm" -> <<"24/7", "Cash Deposit", "Balance Inquiry">>
    [] c = "restaurant" -> <<"Dine-in", "Takeaway", "Home Delivery", "AC">>
    [] c = "hotel" -> <<"WiFi", "Parking", "Restaurant", "Room Service">>
    [] c = "hospital" -> <<"Emergency", "24/7", "Pharmacy", "Ambulance">>

\* mutant: a category without a pool takes the hospital pool
PoolOfHospital(category) == IF category \in PoolCategories THEN category ELSE "hospital"

\* categoryData[category] || categoryData.restaurant
PoolOf(category) == IF category \in PoolCategories THEN category ELSE "restaurant"

\* one outcome of the Math.random() draws made for one landmark:
\* dlat, dlng = (Math.random() - 0.5) * 0.02 in units of 0.0001 degree,
\* rating in tenths, isOpen, price = number of rupee signs, extra = Math.floor(Math.random() * 2)
LandmarkDraws ==
  { [dlat |-> -100, dlng |-> 99, rating |-> 35, isOpen |-> FALSE, price |-> 1, extra |-> 0],
    [dlat |-> 99, dlng |-> -100, rating |-> 49, isOpen |-> TRUE, price |-> 3, extra |-> 1] }

\* generateMockLandmarks(category, center), draw[i] being the random draws of entry i
GenerateMockLandmarks(category, center, draw) ==
  LET names == CategoryNames(PoolOf(category))
      amenities == CategoryAmenities(PoolOf(category))
  IN [i \in 1..Len(names) |->
        [id |-> <<category, ToString(i - 1)>>, name |-> names[i], category |-> category,
         location |-> [lat |-> center.lat + draw[i].dlat, lng |-> center.lng + draw[i].dlng,
                       address |-> NoAddress],
         rating |-> draw[i].rating, isOpen |-> draw[i].isOpen, price |-> draw[i].price,
         phone |-> "undefined", hours |-> "undefined",
         amenities |-> SubSeq(amenities, 1, 2 + draw[i].extra)]]

\* the draws explored for a whole landmark list: every entry draws alike
LandmarkDrawLists == { [i \in 1..5 |-> d] : d \in LandmarkDraws }

\* newLocation of a tick: the fetched location with jittered lat and lng
JitteredLocation(location, dlat, dlng) ==
  [location EXCEPT !.lat = location.lat + dlat, !.lng = location.lng + dlng]

\* mutant: the tick invokes the callback its own session was started with
DeliveryTargetOfChain(slot, chain) == chain

\* the callback a tick's .then() invokes: whatever the slot holds when it runs
DeliveryTarget(slot, chain) == slot

\* MapModel.startLiveTracking(callback): sets flag and slot, then calls
\* updateLocation() once, which issues a getCurrentLocation and schedules a timer
ModelStartLiveTracking ==
  /\ liveTrackingActive' = TRUE
  /\ trackingCallback' = nextSession
  /\ nextSession' = nextSession + 1
  /\ tickFetches' = tickFetches \cup {nextSession}
  /\ timers' = timers \cup {nextSession}
  /\ UNCHANGED <<ticksIssued, stoppedUpTo, resolved>>

\* mutant: stopLiveTracking clears the flag and leaves the callback in the slot
ModelStopLiveTrackingFlagOnly ==
  /\ liveTrackingActive' = FALSE
  /\ stoppedUpTo' = nextSession - 1
  /\ UNCHANGED <<trackingCallback, timers, tickFetches, nextSession, ticksIssued, resolved>>

\* MapModel.stopLiveTracking()
ModelStopLiveTracking ==
  /\ liveTrackingActive' = FALSE
  /\ trackingCallback' = 0
  /\ stoppedUpTo' = nextSession - 1
  /\ UNCHANGED <<timers, tickFetches, nextSession, ticksIssued, resolved>>

\* no direct Model call has resolved yet
NoResult == [call |-> "none", query |-> << >>, category |-> "none",
             location |-> NullLocation, places |-> << >>]

\* origins and queries of the direct Model calls
Origins ==
  { [lat |-> lat, lng |-> lng, address |-> NoAddress] :
      lat \in {-338688, 0, 129716}, lng \in {-1799950, 775946, 1512093} }

ModelQueries == { << >>, <<"coffee">>, <<"book", "shop">> }

\* the draws of a landmark list explored by the direct calls: the entries of odd
\* index draw alike, and so do those of even index
AllLandmarkDrawLists ==
  { l \in [1..5 -> LandmarkDraws] : \A i \in 1..3 : l[i] = l[i + 2] }

\* a call of searchPlaces(query, location) made on the Model and resolved
SearchPlacesCall(query, location) ==
  /\ resolved' = [call |-> "searchPlaces", query |-> query, category |-> "none",
                  location |-> location, places |-> SearchPlaces(query, location)]
  /\ UNCHANGED <<presenterState, liveTrackingActive, trackingCallback, timers, tickFetches,
                 nextSession, ticksIssued, stoppedUpTo, ops, loadingLog, delivered,
                 lastDelivery, status>>

\* a call of getLandmarksByCategory(category, location) made on the Model and resolved
GetLandmarksByCategoryCall(category, location) ==
  /\ \E draw \in AllLandmarkDrawLists :
       resolved' = [call |-> "getLandmarksByCategory", query |-> << >>,
                    category |-> category, location |-> location,
                    places |-> GenerateMockLandmarks(category, location, draw)]
  /\ UNCHANGED <<presenterState, liveTrackingActive, trackingCallback, timers, tickFetches,
                 nextSession, ticksIssued, stoppedUpTo, ops, loadingLog, delivered,
                 lastDelivery, status>>

\* ----------------------------------------------------------- MapPresenter
\* no tracking callback has been invoked yet
\* getNavigationStatus has not been called yet
NoStatus == [called |-> FALSE, isNavigating |-> FALSE, route |-> NullRoute]

NoDelivery == [cb |-> 0, chain |-> 0, loc |-> NullLocation, view |-> NoView,
               calls |-> << >>]

Init ==
  /\ view = NoView
  /\ currentLocation = NullLocation
  /\ isNavigating = FALSE
  /\ currentRoute = NullRoute
  /\ liveTrackingActive = FALSE
  /\ trackingCallback = 0
  /\ timers = {}
  /\ tickFetches = {}
  /\ nextSession = 1
  /\ ticksIssued = 0
  /\ stoppedUpTo = 0
  /\ ops = <<>>
  /\ loadingLog = <<>>
  /\ delivered = 0
  /\ lastDelivery = NoDelivery
  /\ resolved = NoResult
  /\ status = NoStatus

\* the arguments a handler or a Model call can take; unused ones keep these values
NoArgs == [query |-> <<>>, category |-> "none", location |-> NullLocation,
          destination |-> NullLocation]

\* the arguments a view call can take; unused ones keep these values
NoPayload == [on |-> FALSE, location |-> NullLocation, places |-> <<>>,
             route |-> NullRoute, text |-> "none"]

\* one call received by view object v
ViewCall(v, call, payload) == [view |-> v, call |-> call, arg |-> payload]

ShowLoading(v, on) == ViewCall(v, "showLoading", [NoPayload EXCEPT !.on = on])

ShowLocation(v, l) == ViewCall(v, "showLocation", [NoPayload EXCEPT !.location = l])

ShowPlaces(v, places) == ViewCall(v, "showPlaces", [NoPayload EXCEPT !.places = places])

ShowLandmarks(v, places) == ViewCall(v, "showLandmarks", [NoPayload EXCEPT !.places = places])

ShowRoute(v, route) == ViewCall(v, "showRoute", [NoPayload EXCEPT !.route = route])

ShowError(v, message) == ViewCall(v, "showError", [NoPayload EXCEPT !.text = message])

UpdateTrafficInfo(v, info) == ViewCall(v, "updateTrafficInfo", [NoPayload EXCEPT !.text = info])

ShowNavigationStarted(v) == ViewCall(v, "showNavigationStarted", NoPayload)

ShowNavigationStopped(v) == ViewCall(v, "showNavigationStopped", NoPayload)

UpdateLiveLocation(v, l) == ViewCall(v, "updateLiveLocation", [NoPayload EXCEPT !.location = l])

\* a handler invocation: pc is "returned" (early return), the Model call awaited, or
\* "done"; req holds the arguments of the Model call it issued last; log holds the
\* view calls it made so far
Invocation(kind, pc, arg, req, calls) ==
  [kind |-> kind, pc |-> pc, arg |-> arg, req |-> req, failed |-> FALSE, log |-> calls]

\* the showLoading calls among calls, tagged with the invocation that made them
LoadingCalls(id, calls) ==
  LET sel == SelectSeq(calls, LAMBDA c : c.call = "showLoading")
  IN [i \in 1..Len(sel) |-> [view |-> sel[i].view, op |-> id, on |-> sel[i].arg.on]]

\* a new invocation that made the view calls `calls` before returning or awaiting
Begin(kind, pc, arg, req, calls) ==
  /\ ops' = Append(ops, Invocation(kind, pc, arg, req, calls))
  /\ loadingLog' = loadingLog \o LoadingCalls(Len(ops) + 1, calls)

\* invocation id resumes, makes the view calls `calls` and awaits pc (or is done)
Resume(id, pc, req, failed, calls) ==
  /\ ops' = [ops EXCEPT ![id].pc = pc, ![id].req = req, ![id].failed = failed,
                        ![id].log = @ \o calls]
  /\ loadingLog' = loadingLog \o LoadingCalls(id, calls)

LoadingKinds == {"initializeMap", "handleSearch", "handleGetDirections",
                 "handleLandmarkSearch", "startNavigation"}

\* mutant: every handler checks the view only
PreconditionViewOnly(kind, v, loc) == v # NoView

\* the guard each handler starts with:  if (!this.view) return;  for initializeMap,
\* if (!this.view || !this.currentLocation) return;  for the others
PreconditionMet(kind, v, loc) ==
  IF kind = "initializeMap" THEN v # NoView
  ELSE v # NoView /\ loc # NullLocation

\* the Model call a handler issues first
FirstCall(kind) ==
  CASE kind = "initializeMap" -> "getCurrentLocation"
    [] kind = "handleSearch" -> "searchPlaces"
    [] kind = "handleGetDirections" -> "getRoute"
    [] kind = "startNavigation" -> "getRoute"
    [] kind = "handleLandmarkSearch" -> "getLandmarksByCategory"

\* mutant: the route handlers pass destination and current location in the wrong order
FirstRequestSwapped(kind, arg, loc) ==
  CASE kind = "initializeMap" -> NoArgs
    [] kind = "handleSearch" -> [NoArgs EXCEPT !.query = arg.query, !.location = loc]
    [] kind = "handleGetDirections" ->
         [NoArgs EXCEPT !.location = arg.destination, !.destination = loc]
    [] kind = "startNavigation" ->
         [NoArgs EXCEPT !.location = arg.destination, !.destination = loc]
    [] kind = "handleLandmarkSearch" ->
         [NoArgs EXCEPT !.category = arg.category, !.location = loc]

\* the arguments of that call, evaluated when the handler is invoked
FirstRequest(kind, arg, loc) ==
  CASE kind = "initializeMap" -> NoArgs
    [] kind = "handleSearch" -> [NoArgs EXCEPT !.query = arg.query, !.location = loc]
    [] kind = "handleGetDirections" ->
         [NoArgs EXCEPT !.location = loc, !.destination = arg.destination]
    [] kind = "startNavigation" ->
         [NoArgs EXCEPT !.location = loc, !.destination = arg.destination]
    [] kind = "handleLandmarkSearch" ->
         [NoArgs EXCEPT !.category = arg.category, !.location = loc]

\* mutant: every catch block carries the message of handleSearch
ErrorMessageCopied(kind) == "Search failed"

\* the fixed message of each handler's catch block
ErrorMessage(kind) ==
  CASE kind = "initializeMap" -> "Failed to load location"
    [] kind = "handleSearch" -> "Search failed"
    [] kind = "handleGetDirections" -> "Failed to get directions"
    [] kind = "handleLandmarkSearch" -> "Failed to load landmarks"
    [] kind = "startNavigation" -> "Failed to start navigation"

\* the view calls a loading-bracketed handler makes before its first await
EntryCalls(v) == << ShowLoading(v, TRUE) >>

\* the synchronous part of a loading-bracketed handler, up to its first await
Invoke(kind, arg) ==
  /\ IF PreconditionMet(kind, view, currentLocation)
       THEN Begin(kind, FirstCall(kind), arg, FirstRequest(kind, arg, currentLocation),
                  EntryCalls(view))
       ELSE Begin(kind, "returned", arg, NoArgs, <<>>)
  /\ UNCHANGED <<presenterState, modelState, trackingLog>>

AttachView(v) ==
  /\ view' = v
  /\ UNCHANGED <<currentLocation, isNavigating, currentRoute, modelState, ops,
                 loadingLog, trackingLog>>

InitializeMap ==
  /\ Len(ops) < MaxOps
  /\ Invoke("initializeMap", NoArgs)

HandleSearch(q) ==
  /\ Len(ops) < MaxOps
  /\ Invoke("handleSearch", [NoArgs EXCEPT !.query = q])

HandleGetDirections(d) ==
  /\ Len(ops) < MaxOps
  /\ Invoke("handleGetDirections", [NoArgs EXCEPT !.destination = d])

HandleLandmarkSearch(c) ==
  /\ Len(ops) < MaxOps
  /\ Invoke("handleLandmarkSearch", [NoArgs EXCEPT !.category = c])

\* a pending startNavigation will start a session when its route arrives
PendingNavigations ==
  {i \in 1..Len(ops) : ops[i].kind = "startNavigation" /\ ops[i].pc = "getRoute"}

SessionAvailable == nextSession + Cardinality(PendingNavigations) <= MaxSessions

StartNavigation(d) ==
  /\ Len(ops) < MaxOps
  /\ PreconditionMet("startNavigation", view, currentLocation) => SessionAvailable
  /\ Invoke("startNavigation", [NoArgs EXCEPT !.destination = d])

\* the view calls of initializeMap between its two awaits
InitLocationCalls(v, location) == << ShowLocation(v, location) >>

\* initializeMap resumes with the location: store it, show it, ask for the traffic
ResolveCurrentLocation(id) ==
  /\ ops[id].kind = "initializeMap" /\ ops[id].pc = "getCurrentLocation"
  /\ LET location == GetCurrentLocationResult IN
       /\ currentLocation' = location
       /\ Resume(id, "getTrafficData", [NoArgs EXCEPT !.location = location], FALSE, InitLocationCalls(view, location))
  /\ UNCHANGED <<view, isNavigating, currentRoute, modelState, trackingLog>>

\* mutant: initializeMap ends the loading before it shows the traffic
TrafficCallsLoadingFirst(kind, v, info) ==
  IF kind = "initializeMap"
    THEN << ShowLoading(v, FALSE), UpdateTrafficInfo(v, info) >>
    ELSE << UpdateTrafficInfo(v, info) >>

\* mutant: handleLocationUpdate too ends a loading after the traffic arrived
TrafficCallsAlwaysClear(kind, v, info) == << UpdateTrafficInfo(v, info), ShowLoading(v, FALSE) >>

\* the view calls after the traffic string arrived
TrafficCalls(kind, v, info) ==
  IF kind = "initializeMap"
    THEN << UpdateTrafficInfo(v, info), ShowLoading(v, FALSE) >>
    ELSE << UpdateTrafficInfo(v, info) >>

\* initializeMap or handleLocationUpdate resumes with the traffic string
ResolveTrafficData(id) ==
  /\ ops[id].pc = "getTrafficData"
  /\ \E info \in TrafficLevels :
       Resume(id, "done", ops[id].req, FALSE, TrafficCalls(ops[id].kind, view, info))
  /\ UNCHANGED <<presenterState, modelState, trackingLog>>

\* mutant: handleSearch pushes its result with showLandmarks
SearchCallsAsLandmarks(v, places) == << ShowLandmarks(v, places), ShowLoading(v, FALSE) >>

\* the view calls of handleSearch after its await
SearchCalls(v, places) ==
  << ShowPlaces(v, places), ShowLoading(v, FALSE) >>

ResolveSearchPlaces(id) ==
  /\ ops[id].pc = "searchPlaces"
  /\ Resume(id, "done", ops[id].req, FALSE,
            SearchCalls(view, SearchPlaces(ops[id].req.query, ops[id].req.location)))
  /\ UNCHANGED <<presenterState, modelState, trackingLog>>

\* the view calls of handleLandmarkSearch after its await
LandmarkCalls(v, landmarks) ==
  << ShowLandmarks(v, landmarks), ShowLoading(v, FALSE) >>

ResolveLandmarks(id) ==
  /\ ops[id].pc = "getLandmarksByCategory"
  /\ \E draw \in LandmarkDrawLists :
       Resume(id, "done", ops[id].req, FALSE,
              LandmarkCalls(view, GenerateMockLandmarks(ops[id].req.category,
                                                       ops[id].req.location, draw)))
  /\ UNCHANGED <<presenterState, modelState, trackingLog>>

\* mutant: the route starts at the location stored when it resolves
RouteOriginAtResolution(req, loc) == loc

\* the start of the route that resolves: the argument this.currentLocation was
\* evaluated when getRoute was called, before the await
RouteOrigin(req, loc) == req.location

\* mutant: handleGetDirections stores the fetched route
DirectionsStoredRouteFetched(old, route) == route

\* the route this.currentRoute holds after handleGetDirections fetched `route`:
\* the handler does not assign the field
DirectionsStoredRoute(old, route) == old

\* the view calls of handleGetDirections after its await
DirectionsCalls(v, route) ==
  << ShowRoute(v, route), ShowLoading(v, FALSE) >>

ResolveDirections(id) ==
  /\ ops[id].kind = "handleGetDirections" /\ ops[id].pc = "getRoute"
  /\ \E level \in RouteTrafficLevels :
       LET route == GetRoute(RouteOrigin(ops[id].req, currentLocation),
                             ops[id].req.destination, level) IN
         /\ currentRoute' = DirectionsStoredRoute(currentRoute, route)
         /\ Resume(id, "done", ops[id].req, FALSE, DirectionsCalls(view, route))
  /\ UNCHANGED <<view, currentLocation, isNavigating, modelState, trackingLog>>

\* mutant: startNavigation forgets showLoading(false) on success
NavigationCallsNoLoadingEnd(v, route) == << ShowRoute(v, route), ShowNavigationStarted(v) >>

\* mutant: startNavigation signals navigation-started before it shows the route
NavigationCallsStartedFirst(v, route) ==
  << ShowNavigationStarted(v), ShowRoute(v, route), ShowLoading(v, FALSE) >>

\* the view calls of startNavigation after its await
NavigationCalls(v, route) ==
  << ShowRoute(v, route), ShowNavigationStarted(v), ShowLoading(v, FALSE) >>

\* mutant: startNavigation sets the flag and leaves the stored route as it was
NavigationStoredRouteKept(old, route) == old

\* mutant: startNavigation keeps a route that is already stored
NavigationStoredRouteFirstWins(old, route) == IF old # NullRoute THEN old ELSE route

\* the route this.currentRoute holds after startNavigation fetched `route`:
\* this.currentRoute = route, whatever was stored before
NavigationStoredRoute(old, route) == route

\* startNavigation resumes with the route: store it, set the flag, show the route,
\* signal navigation-started, start live tracking, end the loading
ResolveNavigation(id) ==
  /\ ops[id].kind = "startNavigation" /\ ops[id].pc = "getRoute"
  /\ \E level \in RouteTrafficLevels :
       LET route == GetRoute(RouteOrigin(ops[id].req, currentLocation),
                             ops[id].req.destination, level) IN
         /\ currentRoute' = NavigationStoredRoute(currentRoute, route)
         /\ Resume(id, "done", ops[id].req, FALSE, NavigationCalls(view, route))
  /\ isNavigating' = TRUE
  /\ ModelStartLiveTracking
  /\ UNCHANGED <<view, currentLocation, trackingLog>>

\* mutant: the catch blocks leave the loading indicator on
CatchCallsKeepLoading(kind, v) ==
  IF kind \in LoadingKinds THEN << ShowError(v, ErrorMessage(kind)) >> ELSE << >>

\* mutant: the catch blocks end the loading before they show the error
CatchCallsLoadingFirst(kind, v) ==
  IF kind \in LoadingKinds
    THEN << ShowLoading(v, FALSE), ShowError(v, ErrorMessage(kind)) >>
    ELSE << >>

\* mutant: handleLocationUpdate shows its console message to the view
CatchCallsAlwaysError(kind, v) ==
  IF kind \in LoadingKinds
    THEN << ShowError(v, ErrorMessage(kind)), ShowLoading(v, FALSE) >>
    ELSE << ShowError(v, "Failed to update traffic info") >>

\* the view calls of a catch block; handleLocationUpdate only logs to the console
CatchCalls(kind, v) ==
  IF kind \in LoadingKinds
    THEN << ShowError(v, ErrorMessage(kind)), ShowLoading(v, FALSE) >>
    ELSE << >>

\* mutant: the catch block of initializeMap forgets the location
CatchStoredLocationRolledBack(kind, loc) ==
  IF kind = "initializeMap" THEN NullLocation ELSE loc

\* this.currentLocation after a catch block: no catch block assigns it
CatchStoredLocation(kind, loc) == loc

\* mutant: startNavigation is left marked as navigating when its fetch fails
CatchNavigatingSet(kind, flag) == kind = "startNavigation" \/ flag

\* this.isNavigating after a catch block: no catch block assigns it
CatchNavigating(kind, flag) == flag

\* the awaited Model call rejects: the handler's catch block runs
Reject(id) ==
  /\ ops[id].pc \notin {"returned", "done"}
  /\ Resume(id, "done", ops[id].req, TRUE, CatchCalls(ops[id].kind, view))
  /\ currentLocation' = CatchStoredLocation(ops[id].kind, currentLocation)
  /\ isNavigating' = CatchNavigating(ops[id].kind, isNavigating)
  /\ UNCHANGED <<view, currentRoute, modelState, trackingLog>>

HandleLocationUpdate(l) ==
  /\ Len(ops) < MaxOps
  /\ currentLocation' = l
  /\ IF view # NoView
       THEN Begin("handleLocationUpdate", "getTrafficData", [NoArgs EXCEPT !.location = l],
                  [NoArgs EXCEPT !.location = l], << ShowLocation(view, l) >>)
       ELSE Begin("handleLocationUpdate", "done", [NoArgs EXCEPT !.location = l],
                  NoArgs, <<>>)
  /\ UNCHANGED <<view, isNavigating, currentRoute, modelState, trackingLog>>

\* MapPresenter.startLiveTracking
StartLiveTracking ==
  /\ SessionAvailable
  /\ ModelStartLiveTracking
  /\ UNCHANGED <<presenterState, ops, loadingLog, trackingLog>>

\* MapPresenter.stopLiveTracking
StopLiveTracking ==
  /\ ModelStopLiveTracking
  /\ UNCHANGED <<presenterState, ops, loadingLog, trackingLog>>

\* mutant: stopNavigation does not tell the view
NavigationStoppedCallsNone(v) == << >>

\* the view calls of stopNavigation:  if (this.view) this.view.showNavigationStopped()
NavigationStoppedCalls(v) ==
  IF v # NoView THEN << ShowNavigationStopped(v) >> ELSE << >>

StopNavigation ==
  /\ Len(ops) < MaxOps
  /\ isNavigating' = FALSE
  /\ currentRoute' = NullRoute
  /\ ModelStopLiveTracking
  /\ Begin("stopNavigation", "done", NoArgs, NoArgs, NavigationStoppedCalls(view))
  /\ UNCHANGED <<view, currentLocation, trackingLog>>

\* getNavigationStatus(): a read of the two fields
GetNavigationStatus == [isNavigating |-> isNavigating, route |-> currentRoute]

\* mutant: a tick is pushed like a one-shot location
LiveLocationCallsAsShowLocation(v, location) ==
  IF v # NoView THEN << ShowLocation(v, location) >> ELSE << >>

\* the view calls of the closure MapPresenter.startLiveTracking hands to the Model:
\* if (this.view) this.view.updateLiveLocation(location)
LiveLocationCalls(v, location) ==
  IF v # NoView THEN << UpdateLiveLocation(v, location) >> ELSE << >>

\* mutant: reading the status clears the stored route
GetNavigationStatusCallClearing ==
  /\ status' = [called |-> TRUE, isNavigating |-> isNavigating, route |-> currentRoute]
  /\ currentRoute' = NullRoute
  /\ UNCHANGED <<view, currentLocation, isNavigating, modelState, ops, loadingLog,
                 delivered, lastDelivery>>

\* a call of getNavigationStatus(): the caller receives the two fields
GetNavigationStatusCall ==
  /\ status' = [called |-> TRUE, isNavigating |-> GetNavigationStatus.isNavigating,
                route |-> GetNavigationStatus.route]
  /\ UNCHANGED <<presenterState, modelState, ops, loadingLog, delivered, lastDelivery>>

\* mutant: updateLocation does not test the flag
TimerFireIgnoringFlag(s) ==
  /\ s \in timers /\ s \notin tickFetches
  /\ ticksIssued < MaxTicks
  /\ tickFetches' = tickFetches \cup {s}
  /\ ticksIssued' = ticksIssued + 1
  /\ UNCHANGED <<presenterState, liveTrackingActive, trackingCallback, timers, nextSession,
                 stoppedUpTo, ops, loadingLog, trackingLog, resolved>>

\* the setTimeout of chain s fires and runs updateLocation. The fetch the chain
\* issued 3000 ms earlier takes 500 ms, so it has resolved by then.
TimerFire(s) ==
  /\ s \in timers /\ s \notin tickFetches
  /\ IF liveTrackingActive
       THEN /\ ticksIssued < MaxTicks
            /\ tickFetches' = tickFetches \cup {s}
            /\ ticksIssued' = ticksIssued + 1
            /\ UNCHANGED timers
       ELSE /\ timers' = timers \ {s}
            /\ UNCHANGED <<tickFetches, ticksIssued>>
  /\ UNCHANGED <<presenterState, liveTrackingActive, trackingCallback, nextSession,
                 stoppedUpTo, ops, loadingLog, trackingLog, resolved>>

\* the getCurrentLocation of a tick of chain s resolves: its .then() builds the
\* jittered location and hands it to the callback in the slot, if any. The callback
\* is the closure of MapPresenter.startLiveTracking: it stores the location and
\* calls updateLiveLocation on the view, if one is attached.
TickResolve(s) ==
  /\ s \in tickFetches
  /\ tickFetches' = tickFetches \ {s}
  /\ \E j \in Jitter :
       LET newLocation == JitteredLocation(GetCurrentLocationResult, j[1], j[2])
           target == DeliveryTarget(trackingCallback, s)
       IN IF target # 0
            THEN /\ delivered' = delivered + 1
                 /\ lastDelivery' = [cb |-> target, chain |-> s, loc |-> newLocation,
                                     view |-> view,
                                     calls |-> LiveLocationCalls(view, newLocation)]
                 /\ currentLocation' = newLocation
            ELSE UNCHANGED <<delivered, lastDelivery, currentLocation>>
  /\ UNCHANGED <<view, isNavigating, currentRoute, liveTrackingActive, trackingCallback,
                 timers, nextSession, ticksIssued, stoppedUpTo, ops, loadingLog, resolved,
                 status>>

\* the Model call awaited by invocation id settles
Settle(id) ==
  /\ id \in 1..Len(ops)
  /\ \/ ResolveCurrentLocation(id)
     \/ ResolveTrafficData(id)
     \/ ResolveSearchPlaces(id)
     \/ ResolveLandmarks(id)
     \/ ResolveDirections(id)
     \/ ResolveNavigation(id)
     \/ Reject(id)

\* The handlers of the presenter, overlapping freely, with the ticks of the
\* sessions that startNavigation starts.
Next ==
  \/ \E v \in Views : AttachView(v)
  \/ InitializeMap
  \/ \E q \in Queries : HandleSearch(q)
  \/ \E d \in Destinations : HandleGetDirections(d)
  \/ \E c \in Categories : HandleLandmarkSearch(c)
  \/ \E d \in Destinations : StartNavigation(d)
  \/ \E l \in UpdateLocations : HandleLocationUpdate(l)
  \/ StopNavigation
  \/ \E id \in 1..Len(ops) : ResolveCurrentLocation(id)
  \/ \E id \in 1..Len(ops) : ResolveTrafficData(id)
  \/ \E id \in 1..Len(ops) : ResolveSearchPlaces(id)
  \/ \E id \in 1..Len(ops) : ResolveLandmarks(id)
  \/ \E id \in 1..Len(ops) : ResolveDirections(id)
  \/ \E id \in 1..Len(ops) : ResolveNavigation(id)
  \/ \E id \in 1..Len(ops) : Reject(id)
  \/ \E s \in 1..MaxSessions : TimerFire(s)
  \/ \E s \in 1..MaxSessions : TickResolve(s)

Spec == Init /\ [][Next]_vars

\* Timers fire: every pending Model call settles.
FairSpec == Spec /\ \A id \in 1..MaxOps : WF_vars(Settle(id))

\* The tracking slot driven directly through startLiveTracking / stopLiveTracking.
NextTracking ==
  \/ \E v \in Views : AttachView(v)
  \/ StartLiveTracking
  \/ StopLiveTracking
  \/ \E s \in 1..MaxSessions : TimerFire(s)
  \/ \E s \in 1..MaxSessions : TickResolve(s)

SpecTracking == Init /\ [][NextTracking]_vars

\* Pending timers fire and pending fetches resolve.
FairTracking ==
  /\ SpecTracking
  /\ \A s \in 1..MaxSessions : WF_vars(TimerFire(s)) /\ WF_vars(TickResolve(s))

\* Searches and navigations racing each other once a location is known: up to
\* MaxRacing invocations, no failures, no ticks.
NextRacing ==
  \/ \E v \in Views : AttachView(v)
  \/ InitializeMap
  \/ \E l \in UpdateLocations : HandleLocationUpdate(l)
  \/ \E q \in Queries :
       /\ Len(ops) < MaxRacing
       /\ Invoke("handleSearch", [NoArgs EXCEPT !.query = q])
  \/ \E d \in Destinations :
       /\ Len(ops) < MaxRacing
       /\ PreconditionMet("startNavigation", view, currentLocation) => SessionAvailable
       /\ Invoke("startNavigation", [NoArgs EXCEPT !.destination = d])
  \/ \E id \in 1..Len(ops) : ResolveCurrentLocation(id)
  \/ \E id \in 1..Len(ops) : ResolveTrafficData(id)
  \/ \E id \in 1..Len(ops) : ResolveSearchPlaces(id)
  \/ \E id \in 1..Len(ops) : ResolveNavigation(id)

SpecRacing == Init /\ [][NextRacing]_vars

\* The navigation session: up to MaxRacing invocations, of which those after the
\* location is known are startNavigation, stopNavigation or handleGetDirections, with
\* getNavigationStatus and the public stopLiveTracking. The ticks of the sessions are
\* left out.
NextNavigation ==
  \/ \E v \in Views : AttachView(v)
  \/ \E l \in UpdateLocations : HandleLocationUpdate(l)
  \/ \E d \in Destinations :
       /\ Len(ops) < MaxRacing
       /\ Invoke("handleGetDirections", [NoArgs EXCEPT !.destination = d])
  \/ \E d \in Destinations :
       /\ Len(ops) < MaxRacing
       /\ PreconditionMet("startNavigation", view, currentLocation) => SessionAvailable
       /\ Invoke("startNavigation", [NoArgs EXCEPT !.destination = d])
  \/ /\ Len(ops) < MaxRacing
     /\ isNavigating' = FALSE
     /\ currentRoute' = NullRoute
     /\ ModelStopLiveTracking
     /\ Begin("stopNavigation", "done", NoArgs, NoArgs, NavigationStoppedCalls(view))
     /\ UNCHANGED <<view, currentLocation, trackingLog>>
  \/ StopLiveTracking
  \/ GetNavigationStatusCall
  \/ \E id \in 1..Len(ops) : ResolveTrafficData(id)
  \/ \E id \in 1..Len(ops) : ResolveDirections(id)
  \/ \E id \in 1..Len(ops) : ResolveNavigation(id)
  \/ \E id \in 1..Len(ops) : Reject(id)

SpecNavigation == Init /\ [][NextNavigation]_vars

\* The handlers that hand the current location to the Model, while live tracking,
\* started through the public startLiveTracking, moves that location.
NextMoving ==
  \/ \E v \in Views : AttachView(v)
  \/ StartLiveTracking
  \/ \E s \in 1..MaxSessions : TimerFire(s)
  \/ \E s \in 1..MaxSessions : TickResolve(s)
  \/ \E q \in Queries : HandleSearch(q)
  \/ \E d \in Destinations : HandleGetDirections(d)
  \/ \E id \in 1..Len(ops) : ResolveSearchPlaces(id)
  \/ \E id \in 1..Len(ops) : ResolveDirections(id)

SpecMoving == Init /\ [][NextMoving]_vars

\* The two place queries of the Model, called directly.
NextModel ==
  \/ \E q \in ModelQueries, o \in Origins : SearchPlacesCall(q, o)
  \/ \E c \in LandmarkCategory, o \in Origins : GetLandmarksByCategoryCall(c, o)

SpecModel == Init /\ [][NextModel]_vars

\* ------------------------------------------------------------ properties
OpIds == 1..Len(ops)

IsLoading(c, on) == c.call = "showLoading" /\ c.arg.on = on

\* q occurs in s as a contiguous run of words
Contains(s, q) == \E i \in 1..(Len(s) - Len(q) + 1) : SubSeq(s, i, i + Len(q) - 1) = q

ShowLoadingCalls(log) == SelectSeq(log, LAMBDA c : c.call = "showLoading")

ShowErrorCalls(log) == SelectSeq(log, LAMBDA c : c.call = "showError")

\* the loading-bracketed invocations that ran to completion
BracketedDone == {id \in OpIds : ops[id].kind \in LoadingKinds /\ ops[id].pc = "done"}

\* invocation id begins in this step
Begins(id) == id = Len(ops) + 1 /\ Len(ops') = id

\* invocation id completes in this step
Completes(id) == id \in OpIds /\ ops[id].pc \notin {"returned", "done"} /\ ops'[id].pc = "done"

\* C1: once stopLiveTracking has been called, no tracking callback registered before
\* that call is invoked again, also not by a tick whose fetch was in flight at the stop:
\* every callback invocation goes to a callback registered after the last stop.
NoPostStopDelivery ==
  [][delivered' # delivered => lastDelivery'.cb > stoppedUpTo]_vars

\* C1 witness: session 1 was stopped while its first fetch was in flight, the fetch
\* has resolved since, and nothing was delivered
StoppedInFlightTickDropped ==
  stoppedUpTo = 1 /\ nextSession = 2 /\ tickFetches = {} /\ delivered = 0

\* C2 (as claimed): after any sequence of startLiveTracking / stopLiveTracking calls
\* there is at most one recurring tick timer chain.
AtMostOneTimerChain == Cardinality(timers) <= 1

\* C3 (as claimed): every completed loading-bracketed invocation has its
\* showLoading(true) before its showLoading(false), with no other showLoading call
\* in between.
LoadingBracketUninterrupted ==
  \A id \in BracketedDone :
    \E i, j \in 1..Len(loadingLog) :
      /\ i < j
      /\ loadingLog[i].op = id /\ loadingLog[i].on
      /\ loadingLog[j].op = id /\ ~loadingLog[j].on
      /\ j = i + 1

\* C3 (amended): every completed loading-bracketed invocation makes exactly one
\* showLoading(true), as its first view call, and exactly one showLoading(false), as
\* its last, the first before the second, whether it succeeded or failed.
LoadingBracketPerInvocation ==
  \A id \in BracketedDone :
    LET log == ops[id].log
        mine == SelectSeq(loadingLog, LAMBDA e : e.op = id)
    IN /\ Len(ShowLoadingCalls(log)) = 2
       /\ IsLoading(log[1], TRUE)
       /\ IsLoading(log[Len(log)], FALSE)
       /\ Len(mine) = 2 /\ mine[1].on /\ ~mine[2].on

\* C3 witness: two bracketed invocations overlapped and completed, one of them failed
OverlappingBracketsDone ==
  /\ Cardinality(BracketedDone) = 2
  /\ Len(loadingLog) = 4
  /\ loadingLog[2].on /\ loadingLog[2].op # loadingLog[1].op
  /\ \E id \in BracketedDone : ops[id].failed

LoadingPending(id) ==
  /\ id \in OpIds
  /\ ops[id].kind \in LoadingKinds
  /\ Len(ShowLoadingCalls(ops[id].log)) = 1

LoadingCleared(id) ==
  /\ id \in OpIds
  /\ ops[id].log # <<>>
  /\ IsLoading(ops[id].log[Len(ops[id].log)], FALSE)

\* C4: every invocation that made showLoading(true) eventually makes
\* showLoading(false), on success and on failure, given that pending Model calls settle.
LoadingEventuallyCleared ==
  \A id \in 1..MaxOps : LoadingPending(id) ~> LoadingCleared(id)

\* C4 witness: a failed and a successful invocation, both with the loading cleared
ClearedAfterSuccessAndFailure ==
  \E a, b \in BracketedDone :
    /\ ops[a].failed /\ ~ops[b].failed
    /\ LoadingCleared(a) /\ LoadingCleared(b)

\* C5: a loading-bracketed handler invoked with no view attached, or (all but
\* initializeMap) with no current location, returns at once: no view call, no Model
\* call, no change of the presenter's or the model's state.
SilentNoOp ==
  [][\A id \in {Len(ops) + 1} :
       (Begins(id) /\ ops'[id].kind \in LoadingKinds
          /\ (view = NoView
                \/ (ops'[id].kind # "initializeMap" /\ currentLocation = NullLocation)))
       => /\ ops' = Append(ops, [kind |-> ops'[id].kind, pc |-> "returned",
                                 arg |-> ops'[id].arg, req |-> NoArgs, failed |-> FALSE,
                                 log |-> <<>>])
          /\ UNCHANGED <<presenterState, modelState, loadingLog, trackingLog>>]_vars

\* C5 witness: handleSearch returned early with a view attached and no location known
SearchReturnedWithoutLocation ==
  /\ view # NoView /\ currentLocation = NullLocation
  /\ \E id \in OpIds : ops[id].kind = "handleSearch" /\ ops[id].pc = "returned"

\* the view calls of an initializeMap that has not failed, by position
InitLogOk(o) ==
  LET log == o.log IN
  /\ o.pc = "returned" => log = <<>>
  /\ o.pc # "returned" => Len(log) >= 1 /\ IsLoading(log[1], TRUE)
  /\ o.pc = "getCurrentLocation" => Len(log) = 1
  /\ o.pc \in {"getTrafficData", "done"} =>
       /\ Len(log) >= 2
       /\ log[2].call = "showLocation"
       /\ log[2].arg.location =
            [lat |-> 129716, lng |-> 775946, address |-> "Bangalore, Karnataka, India"]
  /\ o.pc = "getTrafficData" => Len(log) = 2
  /\ o.pc = "done" =>
       /\ Len(log) = 4
       /\ log[3].call = "updateTrafficInfo"
       /\ log[3].arg.text \in {"Light traffic", "Moderate traffic", "Heavy traffic"}
       /\ IsLoading(log[4], FALSE)

\* C6: an initializeMap with a view attached and no Model failure makes exactly the
\* view calls showLoading(true), showLocation(reference point), updateTrafficInfo(one
\* of the three strings), showLoading(false), in this order; the location is the
\* stored current location when it is shown, and getTrafficData is issued, for that
\* location, in the step in which getCurrentLocation resolved.
InitializeMapSequence ==
  /\ [](\A id \in OpIds :
          (ops[id].kind = "initializeMap" /\ ~ops[id].failed) => InitLogOk(ops[id]))
  /\ [][\A id \in OpIds :
          (ops[id].kind = "initializeMap" /\ ops[id].pc = "getCurrentLocation"
             /\ ops'[id].pc = "getTrafficData")
          => /\ currentLocation' = ops'[id].log[2].arg.location
             /\ ops'[id].req.location = currentLocation']_vars

\* C6 witness: an initializeMap completed without failure, showing heavy traffic
InitializeMapCompleted ==
  \E id \in OpIds :
    /\ ops[id].kind = "initializeMap" /\ ops[id].pc = "done" /\ ~ops[id].failed
    /\ ops[id].log[3].arg.text = "Heavy traffic"

\* C7: when getCurrentLocation or getTrafficData fails inside initializeMap, the view
\* calls end with showError('Failed to load location'), showLoading(false), and the
\* invocation makes no view call after that.
InitializeMapFailure ==
  /\ [](\A id \in OpIds :
          (ops[id].kind = "initializeMap" /\ ops[id].failed) =>
            LET log == ops[id].log IN
            /\ ops[id].pc = "done"
            /\ Len(log) \in {3, 4}
            /\ log[Len(log) - 1].call = "showError"
            /\ log[Len(log) - 1].arg.text = "Failed to load location"
            /\ IsLoading(log[Len(log)], FALSE)
            /\ Len(ShowErrorCalls(log)) = 1)
  /\ [][\A id \in OpIds : ops[id].pc = "done" => ops'[id] = ops[id]]_vars

\* C7 witness: an initializeMap failed at its second Model call
InitializeMapFailedAtTraffic ==
  \E id \in OpIds :
    ops[id].kind = "initializeMap" /\ ops[id].failed /\ Len(ops[id].log) = 4

HandleGetDirectionsRoute ==
  /\ [](\A id \in OpIds :
          (ops[id].kind = "handleGetDirections" /\ ops[id].pc = "done" /\ ~ops[id].failed) =>
            LET route == ops[id].log[2].arg.route IN
            /\ ops[id].log[2].call = "showRoute"
            /\ route.start = ops[id].req.location
            /\ route.end = ops[id].arg.destination
            /\ route.trafficLevel \in {"light", "moderate"}
            /\ route.trafficLevel \in TrafficLevelEnum
            /\ Len(route.steps) = 3
            /\ [i \in 1..3 |-> route.steps[i].instruction] =
                 <<"Head northeast on MG Road", "Turn right onto Brigade Road",
                   "Continue straight to destination">>)
  /\ [][\A id \in {Len(ops) + 1} :
          (Begins(id) /\ ops'[id].kind = "handleGetDirections" /\ ops'[id].pc # "returned")
          => ops'[id].req.location = currentLocation]_vars

\* C9 witness: a handleGetDirections completed and showed a route with moderate traffic
DirectionsCompleted ==
  \E id \in OpIds :
    /\ ops[id].kind = "handleGetDirections" /\ ops[id].pc = "done" /\ ~ops[id].failed
    /\ ops[id].log[2].arg.route.trafficLevel = "moderate"

\* C10 (as claimed): when a handleGetDirections succeeds, getNavigationStatus reports
\* the fetched route right afterwards, and the navigation flag is unchanged.
DirectionsStoresRoute ==
  [][\A id \in OpIds :
       (Completes(id) /\ ops[id].kind = "handleGetDirections" /\ ~ops'[id].failed)
       => /\ GetNavigationStatus'.route = ops'[id].log[2].arg.route
          /\ GetNavigationStatus'.isNavigating = GetNavigationStatus.isNavigating]_vars

\* C10 (amended): when a handleGetDirections succeeds, the fetched route is pushed to
\* the view with showRoute but not stored: getNavigationStatus reports the same route
\* and the same navigation flag as before the route arrived.
DirectionsLeavesStatus ==
  [][\A id \in OpIds :
       (Completes(id) /\ ops[id].kind = "handleGetDirections" /\ ~ops'[id].failed)
       => /\ ops'[id].log[2].call = "showRoute"
          /\ GetNavigationStatus' = GetNavigationStatus]_vars

\* C10 witness: a handleGetDirections has completed and shown a route, and
\* getNavigationStatus reports no route
DirectionsShownNotStored ==
  /\ GetNavigationStatus.route = NullRoute
  /\ \E id \in OpIds :
       /\ ops[id].kind = "handleGetDirections" /\ ops[id].pc = "done" /\ ~ops[id].failed
       /\ ops[id].log[2].arg.route # NullRoute

\* C11: a successful startNavigation(d) makes exactly the view calls showLoading(true),
\* showRoute(route from the current location at the call to d), showNavigationStarted,
\* showLoading(false), in this order; in the step in which it completes it stores the
\* shown route, sets the navigation flag and starts a live-tracking session, so that
\* the Model's tracking is active with the callback of that session in the slot.
StartNavigationSuccess ==
  /\ [](\A id \in OpIds :
          (ops[id].kind = "startNavigation" /\ ops[id].pc = "done" /\ ~ops[id].failed) =>
            LET log == ops[id].log IN
            /\ Len(log) = 4
            /\ IsLoading(log[1], TRUE)
            /\ log[2].call = "showRoute"
            /\ log[2].arg.route.start = ops[id].req.location
            /\ log[2].arg.route.end = ops[id].arg.destination
            /\ log[3].call = "showNavigationStarted"
            /\ IsLoading(log[4], FALSE))
  /\ [][\A id \in OpIds :
          (Completes(id) /\ ops[id].kind = "startNavigation" /\ ~ops'[id].failed)
          => /\ isNavigating'
             /\ currentRoute' = ops'[id].log[2].arg.route
             /\ GetNavigationStatus' = [isNavigating |-> TRUE, route |-> currentRoute']
             /\ liveTrackingActive'
             /\ nextSession' = nextSession + 1
             /\ trackingCallback' = nextSession
             /\ nextSession \in tickFetches' /\ nextSession \in timers']_vars

\* C11 witness: a startNavigation has completed without failure; navigation is on with
\* the route it showed, and the Model is tracking
NavigationStartedDone ==
  \E id \in OpIds :
    /\ ops[id].kind = "startNavigation" /\ ops[id].pc = "done" /\ ~ops[id].failed
    /\ isNavigating /\ currentRoute = ops[id].log[2].arg.route
    /\ liveTrackingActive /\ trackingCallback # 0

LocationUpdateBehaviour ==
  /\ [][\A id \in {Len(ops) + 1} :
          (Begins(id) /\ ops'[id].kind = "handleLocationUpdate")
          => /\ currentLocation' = ops'[id].arg.location
             /\ view = NoView =>
                  /\ ops'[id].log = << >>
                  /\ ops'[id].pc = "done" /\ ops'[id].req = NoArgs
             /\ view # NoView =>
                  /\ Len(ops'[id].log) = 1
                  /\ ops'[id].log[1].call = "showLocation"
                  /\ ops'[id].log[1].view = view
                  /\ ops'[id].log[1].arg.location = ops'[id].arg.location
                  /\ ops'[id].pc = "getTrafficData"
                  /\ ops'[id].req.location = ops'[id].arg.location]_vars
  /\ [](\A id \in OpIds :
          ops[id].kind = "handleLocationUpdate" =>
            LET log == ops[id].log IN
            /\ ShowLoadingCalls(log) = << >>
            /\ (ops[id].pc = "done" /\ ~ops[id].failed /\ log # << >>) =>
                 /\ Len(log) = 2
                 /\ log[1].call = "showLocation"
                 /\ log[2].call = "updateTrafficInfo"
                 /\ log[2].arg.text \in {"Light traffic", "Moderate traffic", "Heavy traffic"})

\* C13 witness: one handleLocationUpdate ran with no view attached, another with a view
\* and got its traffic string
LocationUpdatedWithAndWithoutView ==
  /\ Len(ops) = 2
  /\ ops[1].kind = "handleLocationUpdate" /\ ops[1].log = << >>
  /\ ops[2].kind = "handleLocationUpdate" /\ ops[2].pc = "done" /\ Len(ops[2].log) = 2
  /\ currentLocation = ops[2].arg.location

\* C14: when the traffic fetch of a handleLocationUpdate fails, that invocation makes
\* no showError and no updateTrafficInfo call: its only view call stays the
\* showLocation it made, and the stored current location is not touched by the
\* failure; every other invocation whose Model call fails makes exactly one showError.
LocationUpdateFailureSwallowed ==
  /\ [](\A id \in OpIds :
          ops[id].failed =>
            IF ops[id].kind = "handleLocationUpdate"
              THEN /\ Len(ops[id].log) = 1
                   /\ ops[id].log[1].call = "showLocation"
                   /\ ops[id].log[1].arg.location = ops[id].arg.location
              ELSE Len(ShowErrorCalls(ops[id].log)) = 1)
  /\ [][\A id \in OpIds :
          (Completes(id) /\ ops[id].kind = "handleLocationUpdate" /\ ops'[id].failed)
          => /\ currentLocation' = currentLocation
             /\ ops'[id].log = ops[id].log]_vars

\* C14 witness: the traffic fetch of a handleLocationUpdate failed and the location it
\* stored is still the current location
TrafficRefreshFailed ==
  \E id \in OpIds :
    /\ ops[id].kind = "handleLocationUpdate" /\ ops[id].failed
    /\ currentLocation = ops[id].arg.location

\* the message the view must receive when the Model call of a handler fails
FixedMessage(kind) ==
  CASE kind = "handleSearch" -> "Search failed"
    [] kind = "handleGetDirections" -> "Failed to get directions"
    [] kind = "startNavigation" -> "Failed to start navigation"
    [] kind = "handleLandmarkSearch" -> "Failed to load landmarks"

ResultPushes == {"showPlaces", "showRoute", "showNavigationStarted", "showLandmarks"}

\* C15: when the Model call of handleSearch, handleGetDirections, startNavigation or
\* handleLandmarkSearch fails, the invocation's view calls are showLoading(true), one
\* showError with the fixed message of the operation, showLoading(false), in this
\* order, and no showPlaces, showRoute, showNavigationStarted or showLandmarks.
FailureShowsFixedMessage ==
  \A id \in OpIds :
    (ops[id].failed /\ ops[id].kind \in {"handleSearch", "handleGetDirections",
                                          "startNavigation", "handleLandmarkSearch"}) =>
      LET log == ops[id].log IN
      /\ Len(log) = 3
      /\ IsLoading(log[1], TRUE)
      /\ log[2].call = "showError"
      /\ log[2].arg.text = FixedMessage(ops[id].kind)
      /\ IsLoading(log[3], FALSE)
      /\ \A i \in 1..Len(log) : log[i].call \notin ResultPushes

\* C15 witness: the getRoute of a startNavigation failed, and navigation is off
NavigationFailed ==
  \E a \in OpIds :
    /\ ops[a].kind = "startNavigation" /\ ops[a].failed
    /\ Len(ops[a].log) = 3
    /\ ~isNavigating /\ currentRoute = NullRoute

\* the successful startNavigation invocations that have completed
NavigationsDone ==
  {id \in OpIds : ops[id].kind = "startNavigation" /\ ops[id].pc = "done" /\ ~ops[id].failed}

\* position of the showLoading(false) of invocation id among all showLoading calls
ClearedAt(id) ==
  CHOOSE i \in 1..Len(loadingLog) : loadingLog[i].op = id /\ ~loadingLog[i].on

\* C16: handlers are not mutually excluded, and every response is applied when it
\* resolves, whatever was issued or applied in the meantime: the location resolved for
\* initializeMap becomes the current location and is shown, the places resolved for a
\* handleSearch are shown, the route resolved for a startNavigation is shown and
\* becomes the current route; so the current route is that of the startNavigation
\* that resolved last, not of the one that was issued last.
LastResponseWins ==
  /\ [][\A id \in OpIds :
          /\ (ops[id].kind = "initializeMap" /\ ops[id].pc = "getCurrentLocation"
                 /\ ops'[id].pc = "getTrafficData")
               => /\ currentLocation' = GetCurrentLocationResult
                  /\ ops'[id].log[Len(ops'[id].log)] = ShowLocation(view, currentLocation')
          /\ (Completes(id) /\ ops[id].kind = "handleSearch")
               => ops'[id].log[Len(ops'[id].log) - 1] =
                    ShowPlaces(view, SearchPlaces(ops[id].req.query, ops[id].req.location))
          /\ (Completes(id) /\ ops[id].kind = "startNavigation")
               => /\ ops'[id].log[2].call = "showRoute" /\ ops'[id].log[2].view = view
                  /\ ops'[id].log[2].arg.route.start = ops[id].req.location
                  /\ currentRoute' = ops'[id].log[2].arg.route]_vars
  /\ [](\A id \in NavigationsDone :
          (\A other \in NavigationsDone : ClearedAt(other) <= ClearedAt(id))
            => currentRoute = ops[id].log[2].arg.route)

\* C16 witness: two startNavigation calls overlapped, the second resolved first, with
\* another route than the first, and the current route is that of the first call
EarlierNavigationResolvedLast ==
  /\ NavigationsDone = {2, 3}
  /\ ClearedAt(3) < ClearedAt(2)
  /\ ops[2].log[2].arg.route # ops[3].log[2].arg.route
  /\ currentRoute = ops[2].log[2].arg.route

\* C17: every tick delivered to the callback of MapPresenter.startLiveTracking stores
\* the tick's location as the current location, also when no view is attached (then
\* with no view call); with a view attached it makes one view call, an
\* updateLiveLocation with that location, and never a showLocation. Tracking can be
\* started with no view attached and no location known.
LiveTickStoredAndPushed ==
  /\ [][delivered' # delivered =>
          /\ delivered' = delivered + 1
          /\ currentLocation' = lastDelivery'.loc
          /\ \E j \in Jitter :
               /\ lastDelivery'.loc.lat = 129716 + j[1]
               /\ lastDelivery'.loc.lng = 775946 + j[2]
          /\ view = NoView => lastDelivery'.calls = << >>
          /\ view # NoView =>
               /\ Len(lastDelivery'.calls) = 1
               /\ lastDelivery'.calls[1].call = "updateLiveLocation"
               /\ lastDelivery'.calls[1].view = view
               /\ lastDelivery'.calls[1].arg.location = lastDelivery'.loc
          /\ \A i \in 1..Len(lastDelivery'.calls) :
               lastDelivery'.calls[i].call # "showLocation"]_vars
  /\ [][(view = NoView /\ currentLocation = NullLocation /\ nextSession <= MaxSessions)
          => ENABLED StartLiveTracking]_vars

\* C17 witness: through startLiveTracking alone, two ticks were delivered; the second
\* was stored and pushed to the attached view
SecondTickPushedLive ==
  /\ delivered = 2
  /\ lastDelivery.calls # << >>
  /\ currentLocation = lastDelivery.loc
  /\ ops = << >>

\* C18: for every query q and origin o, searchPlaces(q, o) resolves exactly 3 places
\* with ids '1', '2', '3' and names 'q Central', 'Best q Place', 'q Express', each
\* containing q, at o + (0.01, 0.01), o + (-0.01, 0.01), o + (0.01, -0.01).
SearchPlacesShape ==
  resolved.call = "searchPlaces" =>
    LET q == resolved.query
        o == resolved.location
        r == resolved.places
    IN /\ Len(r) = 3
       /\ [i \in 1..3 |-> r[i].id] = << <<"1">>, <<"2">>, <<"3">> >>
       /\ r[1].name = q \o <<"Central">>
       /\ r[2].name = <<"Best">> \o q \o <<"Place">>
       /\ r[3].name = q \o <<"Express">>
       /\ \A i \in 1..3 : Contains(r[i].name, q)
       /\ [i \in 1..3 |-> <<r[i].location.lat - o.lat, r[i].location.lng - o.lng>>] =
            << <<100, 100>>, <<-100, 100>>, <<100, -100>> >>

\* C18 witness: a search for a two-word query around an origin in the southern and
\* western hemispheres has resolved
SearchResolvedSouthWest ==
  /\ resolved.call = "searchPlaces"
  /\ resolved.query = <<"book", "shop">>
  /\ resolved.location.lat < 0 /\ resolved.location.lng < 0
  /\ Len(resolved.places) = 3

Abs(n) == IF n < 0 THEN -n ELSE n

\* C19: for every category of the enum and every origin, getLandmarksByCategory
\* resolves 5 entries of the requested category with the distinct ids
\* '<category>_0' .. '<category>_4', each within 0.01 of the origin in latitude and in
\* longitude; pharmacy, shopping, tourist_attraction and parking take the names of the
\* restaurant pool and 2 or 3 of its amenities.
LandmarksShape ==
  resolved.call = "getLandmarksByCategory" =>
    LET c == resolved.category
        o == resolved.location
        r == resolved.places
    IN /\ c \in LandmarkCategory
       /\ Len(r) = 5
       /\ \A i \in 1..5 :
            /\ r[i].category = c
            /\ r[i].id = <<c, ToString(i - 1)>>
            /\ Abs(r[i].location.lat - o.lat) <= 100
            /\ Abs(r[i].location.lng - o.lng) <= 100
       /\ \A i, j \in 1..5 : i # j => r[i].id # r[j].id
       /\ c \in {"pharmacy", "shopping", "tourist_attraction", "parking"} =>
            /\ [i \in 1..5 |-> r[i].name] =
                 << <<"Coastal", "Kitchen">>, <<"Spice", "Garden">>, <<"Urban", "Bites">>,
                    <<"Food", "Court">>, <<"Cafe", "Mocha">> >>
            /\ \A i \in 1..5 :
                 r[i].amenities \in { <<"Dine-in", "Takeaway">>,
                                      <<"Dine-in", "Takeaway", "Home Delivery">> }

\* C19 witness: the landmarks of a category without a pool have resolved, with entries
\* at both ends of the scatter
PharmacyLandmarksResolved ==
  /\ resolved.call = "getLandmarksByCategory"
  /\ resolved.category = "pharmacy"
  /\ Len(resolved.places) = 5
  /\ resolved.places[1].location.lat = resolved.location.lat - 100
  /\ resolved.places[2].location.lat = resolved.location.lat + 99

\* C20: the Model has one tracking slot: liveTrackingActive is true exactly when
\* trackingCallback is non-null; every startLiveTracking sets the flag and puts its
\* own callback in the slot, whatever the slot held; every stopLiveTracking leaves the
\* flag false and the slot null, whatever the state before (never started, or
\* stopped already).
SingleTrackingSlot ==
  /\ [](liveTrackingActive <=> trackingCallback # 0)
  /\ [][nextSession' # nextSession =>
          /\ liveTrackingActive'
          /\ trackingCallback' = nextSession
          /\ trackingCallback' # trackingCallback]_vars
  /\ [][StopLiveTracking => (~liveTrackingActive' /\ trackingCallback' = 0)]_vars
  /\ [](~liveTrackingActive => ENABLED StopLiveTracking)

\* C20 witness: a second startLiveTracking, with no stop in between, has put its
\* callback in the place of the first
SlotOverwritten ==
  /\ nextSession = 3 /\ stoppedUpTo = 0
  /\ liveTrackingActive /\ trackingCallback = 2

\* C21: getNavigationStatus returns the navigation flag and the stored route as they
\* are, and changes nothing: the view reference, the current location, the flag, the
\* route and the Model's tracking state are as before, and no view call and no Model
\* call is made.
StatusIsPureRead ==
  [][(status' # status \/ GetNavigationStatusCall) =>
       /\ status'.called
       /\ status'.isNavigating = isNavigating
       /\ status'.route = currentRoute
       /\ UNCHANGED <<view, currentLocation, isNavigating, currentRoute>>
       /\ UNCHANGED <<liveTrackingActive, trackingCallback, timers, tickFetches,
                      nextSession, ticksIssued>>
       /\ UNCHANGED <<ops, loadingLog, delivered, resolved>>]_vars

\* C21 witness: getNavigationStatus was called while navigating and returned the
\* stored route, which is still stored
StatusReadWhileNavigating ==
  /\ status.called /\ status.isNavigating
  /\ status.route # NullRoute /\ status.route = currentRoute
  /\ isNavigating /\ liveTrackingActive

\* the stopNavigation calls after which startNavigation has not been invoked again
FinalStops ==
  {i \in OpIds : /\ ops[i].kind = "stopNavigation"
                 /\ \A j \in OpIds : j > i => ops[j].kind # "startNavigation"}

\* C22 (as claimed): once stopNavigation has been called and as long as startNavigation
\* is not invoked again, the navigation flag is false, no route is stored and tracking
\* is stopped; a startNavigation that was pending at the stop changes none of these
\* when its route arrives, and signals no showNavigationStarted.
NavigationStaysStopped ==
  /\ [](FinalStops # {} =>
          (~isNavigating /\ currentRoute = NullRoute /\ ~liveTrackingActive))
  /\ [][\A id \in OpIds :
          (Completes(id) /\ ops[id].kind = "startNavigation"
             /\ \E i \in FinalStops : i > id)
          => /\ UNCHANGED <<isNavigating, currentRoute, liveTrackingActive,
                            trackingCallback, nextSession>>
             /\ \A k \in 1..Len(ops'[id].log) :
                  ops'[id].log[k].call # "showNavigationStarted"]_vars

\* C23 (as claimed): a tick whose getCurrentLocation was issued by a session started
\* before the last stopLiveTracking is never delivered to a callback registered after
\* that stop.
NoCrossSessionDelivery ==
  [][delivered' # delivered =>
       ~(lastDelivery'.chain <= stoppedUpTo /\ lastDelivery'.cb > stoppedUpTo)]_vars

\* C24: in every reachable state the navigation flag is true exactly when a route is
\* stored.
NavigatingIffRoute == isNavigating <=> currentRoute # NullRoute

\* C24 witness: the route of a startNavigation arrived after a stopNavigation, and the
\* flag is set with a route stored
NavigatingWithRouteAfterStop ==
  /\ isNavigating /\ currentRoute # NullRoute
  /\ FinalStops # {}
  /\ \E id \in OpIds : ops[id].kind = "startNavigation" /\ ops[id].pc = "done"

\* C25 (as claimed): in every reachable state, whenever the navigation flag is true,
\* the Model's live tracking is active with a callback registered.
NavigatingImpliesTracking ==
  isNavigating => (liveTrackingActive /\ trackingCallback # 0)

\* C26 (as claimed): every view call of a loading-bracketed invocation goes to the view
\* object that received its showLoading(true), also when another view is attached
\* while its Model call is pending; so the view that was told showLoading(true) is
\* told showLoading(false) when the invocation completes.
SameViewThroughout ==
  \A id \in OpIds :
    (ops[id].kind \in LoadingKinds /\ ops[id].log # << >>) =>
      LET log == ops[id].log IN
      /\ \A k \in 1..Len(log) : log[k].view = log[1].view
      /\ ops[id].pc = "done" =>
           \E k \in 1..Len(log) : IsLoading(log[k], FALSE) /\ log[k].view = log[1].view

OriginKinds == {"handleSearch", "handleLandmarkSearch", "handleGetDirections",
                "startNavigation"}

InitFailedAtTraffic ==
  {j \in OpIds : ops[j].kind = "initializeMap" /\ ops[j].failed /\ Len(ops[j].log) = 4}

\* C28: a failure of initializeMap leaves the stored current location as it is: after
\* a failure at getTrafficData the fetched location stays stored and the view calls of
\* the invocation are showLoading(true), showLocation, showError('Failed to load
\* location'), showLoading(false); a handleSearch, handleGetDirections,
\* handleLandmarkSearch or startNavigation invoked afterwards passes its precondition;
\* a failure at getCurrentLocation leaves the location unchanged as well.
InitFailureKeepsLocation ==
  /\ [][\A id \in OpIds :
          (Completes(id) /\ ops[id].kind = "initializeMap" /\ ops'[id].failed)
          => /\ currentLocation' = currentLocation
             /\ ops[id].pc = "getTrafficData" => currentLocation' # NullLocation]_vars
  /\ [](\A id \in InitFailedAtTraffic :
          /\ [k \in 1..4 |-> ops[id].log[k].call] =
               <<"showLoading", "showLocation", "showError", "showLoading">>
          /\ ops[id].log[1].arg.on /\ ~ops[id].log[4].arg.on
          /\ ops[id].log[2].arg.location = GetCurrentLocationResult
          /\ ops[id].log[3].arg.text = "Failed to load location"
          /\ currentLocation # NullLocation)
  /\ [][\A id \in {Len(ops) + 1} :
          (Begins(id) /\ ops'[id].kind \in OriginKinds /\ InitFailedAtTraffic # {})
          => /\ ops'[id].pc # "returned"
             /\ ops'[id].req.location = currentLocation]_vars

\* C28 witness: initializeMap failed at getTrafficData, and the handleSearch invoked
\* after it has issued its search from the location that initializeMap fetched
SearchAfterFailedInit ==
  /\ Len(ops) = 2
  /\ 1 \in InitFailedAtTraffic
  /\ ops[2].kind = "handleSearch" /\ ops[2].pc = "searchPlaces"
  /\ ops[2].req.location = GetCurrentLocationResult
  /\ Len(loadingLog) = 3
  /\ loadingLog[2].op = 1 /\ ~loadingLog[2].on
  /\ loadingLog[3].op = 2

\* C29: when the route fetch of a startNavigation fails, the invocation leaves the
\* navigation flag and the stored route as they were, starts no live-tracking session
\* and calls neither showRoute nor showNavigationStarted.
NavigationFailureChangesNothing ==
  [][\A id \in OpIds :
       (Completes(id) /\ ops[id].kind = "startNavigation" /\ ops'[id].failed)
       => /\ UNCHANGED <<isNavigating, currentRoute>>
          /\ GetNavigationStatus' = GetNavigationStatus
          /\ UNCHANGED <<liveTrackingActive, trackingCallback, nextSession, timers,
                         tickFetches>>
          /\ \A k \in 1..Len(ops'[id].log) :
               ops'[id].log[k].call \notin {"showRoute", "showNavigationStarted"}]_vars

\* C29 witness: a second startNavigation failed while the first one's navigation was
\* on, and it is still on with the first one's route
SecondNavigationFailed ==
  \E a, b \in OpIds :
    /\ a < b
    /\ ops[a].kind = "startNavigation" /\ ops[a].pc = "done" /\ ~ops[a].failed
    /\ ops[b].kind = "startNavigation" /\ ops[b].failed
    /\ isNavigating /\ currentRoute = ops[a].log[2].arg.route
    /\ liveTrackingActive /\ nextSession = 2

\* C30: while tracking is stopped, no tick timer is scheduled and no getCurrentLocation
\* is issued: a pending timer can only fire and go; and unless startLiveTracking is
\* called again, eventually no timer and no tick fetch is pending.
TrackingQuiesces ==
  /\ [][(~liveTrackingActive /\ ~liveTrackingActive') =>
          /\ timers' \subseteq timers
          /\ tickFetches' \subseteq tickFetches
          /\ ticksIssued' = ticksIssued]_vars
  /\ (~liveTrackingActive) ~> (liveTrackingActive \/ (timers = {} /\ tickFetches = {}))

\* C30 witness: two sessions were started and stopped, ticks were issued, and no timer
\* and no fetch is pending any more
TrackingQuiet ==
  /\ nextSession = 3 /\ stoppedUpTo = 2 /\ ~liveTrackingActive
  /\ ticksIssued >= 1
  /\ timers = {} /\ tickFetches = {}

====
